---- MODULE Spec2Model ----
(***************************************************************************)
(* Model of the two example algorithms of Lean.DataSource.CoinGecko:       *)
(*   CoinGeckoAlgorithm                       (CoinGeckoAlgorithm.py)      *)
(*   CoinGeckoUniverseSelectionModelAlgorithm                              *)
(*                       (CoinGeckoUniverseSelectionModelAlgorithm.py)     *)
(* The engine runs one algorithm object per backtest: it calls Initialize  *)
(* once and then the event handlers.  The state is the algorithm object's  *)
(* fields and the calls it has made on the engine (SetHoldings, Debug,     *)
(* Log); the engine's inputs (slices, order events, the universe data      *)
(* list, security changes) are chosen nondeterministically.                *)
(***************************************************************************)
EXTENDS Integers, Sequences, FiniteSets, TLC

----------------------------------------------------------------------------
(* Bounds of the model *)

\* longest list handed to UniverseSelection
MaxLen == 4
\* market caps range over 0..MaxCap
MaxCap == 2
\* number of CoinGecko data points for BTC the engine delivers
MaxData == 3
\* number of Filled order events the engine delivers
MaxFills == 2

(* Program constants *)

\* RollingWindow[CoinGecko](2)
WindowSize == 2
\* [:3]
TopCount == 3
\* self.SetCash(100000)
InitialCash == 100000

----------------------------------------------------------------------------
(* Value domains *)

Caps == 0..MaxCap
Prices == {10, 20}

\* A date (year, month, day); <<>> stands for "never set".
Unset == <<>>

DateLE(a, b) ==
    \/ a[1] < b[1]
    \/ a[1] = b[1] /\ a[2] < b[2]
    \/ a[1] = b[1] /\ a[2] = b[2] /\ a[3] <= b[3]

\* SetStartDate(2018, 4, 4), SetEndDate(2018, 4, 6)
StartDate == <<2018, 4, 4>>
EndDate == <<2018, 4, 6>>

\* AddCrypto("BTCUSD").Symbol
CryptoTicker == "BTCUSD"

\* AddData(CoinGecko, "BTC").Symbol
CustomTicker_ETH == "ETH"
CustomTicker == "BTC"

\* Custom-data symbols the CoinGecko feed can carry in one slice.
CustomSymbols == {"BTC", "ETH"}

\* A CoinGecko data point of a slice.
Point(sym, cap) == [Symbol |-> sym, MarketCap |-> cap]

\* The CoinGecko dictionaries a slice can hold: symbol -> data point.
GeckoDicts ==
    UNION { { [s \in S |-> Point(s, c[s])] : c \in [S -> Caps] } :
            S \in SUBSET CustomSymbols }

\* A slice: the trade bars it carries and its CoinGecko dictionary.
Slices == [Bars : SUBSET {CryptoTicker}, Gecko : GeckoDicts]

OrderStatuses == {"Submitted", "PartiallyFilled", "Filled", "Canceled"}
OrderSymbols == {"BTCUSD", "ETHUSD"}
OrderEvents == [Status : OrderStatuses, Symbol : OrderSymbols]

\* Coins of the universe data, one datum per coin.
CoinNames == <<"BTC", "ETH", "LTC", "XRP", "ADA", "BCH", "EOS">>

\* A list the universe selection model can pass to UniverseSelection: one
\* datum per coin, with market caps c and prices p.
Feed(n, c, p) ==
    [i \in 1..n |-> [Coin |-> CoinNames[i], MarketCap |-> c[i], Price |-> p[i]]]

\* SecurityChanges values passed to OnSecuritiesChanged.
Changes ==
    { [Added |-> {"BTCUSD"}, Removed |-> {}],
      [Added |-> {}, Removed |-> {"BTCUSD"}] }

----------------------------------------------------------------------------
VARIABLES
    algorithm,          \* the algorithm class the engine runs
    initialized,        \* Initialize has run
    feed,               \* the list object the selection model passes
    startDate,          \* SetStartDate
    endDate,            \* SetEndDate
    cash,               \* SetCash (<<>> when never called)
    resolution,         \* UniverseSettings.Resolution
    selector,           \* SetUniverseSelection callback
    crypto_symbol,      \* self.crypto_symbol
    custom_data_symbol, \* self.custom_data_symbol
    window,             \* self.window, window[0] first
    holdings,           \* the SetHoldings calls made, in order
    debugMessages,      \* the Debug calls made, in order
    logged,             \* the Log calls made by the latest handler call
    result,             \* the value the latest UniverseSelection returned
    picked,             \* positions in the list of the data it selected
    call,               \* the latest handler call and its argument
    received,           \* BTC data points the engine delivered, in order
    filled              \* Filled order events the engine delivered

vars == <<algorithm, initialized, feed, startDate, endDate, cash, resolution,
          selector, crypto_symbol, custom_data_symbol, window, holdings,
          debugMessages, logged, result, picked, call, received, filled>>

qcVars == <<startDate, endDate, cash, resolution, selector>>
alphaVars == <<crypto_symbol, custom_data_symbol, window, holdings,
               debugMessages, received, filled>>
universeVars == <<logged, result, picked>>

Init ==
    /\ \/ /\ algorithm = "CoinGeckoAlgorithm"
          /\ feed = <<>>
       \/ /\ algorithm = "CoinGeckoUniverseSelectionModelAlgorithm"
          /\ \E n \in 0..MaxLen :
                \E c \in [1..n -> Caps], p \in [1..n -> Prices] :
                   feed = Feed(n, c, p)
    /\ initialized = FALSE
    /\ startDate = Unset
    /\ endDate = Unset
    /\ cash = Unset
    /\ resolution = "Default"
    /\ selector = "None"
    /\ crypto_symbol = "None"
    /\ custom_data_symbol = "None"
    /\ window = <<>>
    /\ holdings = <<>>
    /\ debugMessages = <<>>
    /\ logged = <<>>
    /\ result = <<>>
    /\ picked = <<>>
    /\ call = [name |-> "None"]
    /\ received = <<>>
    /\ filled = <<>>

----------------------------------------------------------------------------
(* CoinGeckoAlgorithm *)

\* RollingWindow[CoinGecko](2): a new window holds nothing.
NewWindow_Seeded == <<Point("BTC", 0)>>
NewWindow == <<>>

\* RollingWindow.Add: the item goes to index 0 and, when the window is
\* full, the oldest item is dropped.
Add_NoEvict(w, x) == <<x>> \o w
Add(w, x) ==
    IF Len(w) >= WindowSize
    THEN <<x>> \o SubSeq(w, 1, WindowSize - 1)
    ELSE <<x>> \o w

\* RollingWindow.IsReady
IsReady(w) == Len(w) >= WindowSize

\* self.window[i], indices from 0
At(w, i) == w[i + 1]

\* slice.Get(CoinGecko)
Get(slice) == slice.Gecko

\* `data and self.custom_data_symbol in data`: an empty dictionary is falsy.
HasCustomData(data, sym) ==
    /\ DOMAIN data # {}
    /\ sym \in DOMAIN data

\* self.window[0].MarketCap > self.window[1].MarketCap
Increasing_OrEqual(w) == At(w, 0).MarketCap >= At(w, 1).MarketCap
Increasing(w) == At(w, 0).MarketCap > At(w, 1).MarketCap

\* the target of the SetHoldings call in each branch
TargetFor_Flat(increasing) == IF increasing THEN 1 ELSE 0
TargetFor(increasing) == IF increasing THEN 1 ELSE -1

\* self.SetHoldings(symbol, target), recorded
SetHoldings(h, symbol, target) ==
    Append(h, [Symbol |-> symbol, Target |-> target])

CoinGeckoAlgorithm_Initialize ==
    /\ algorithm = "CoinGeckoAlgorithm"
    /\ ~initialized
    /\ initialized' = TRUE
    /\ startDate' = StartDate
    /\ endDate' = EndDate
    /\ crypto_symbol' = CryptoTicker
    /\ custom_data_symbol' = CustomTicker
    /\ window' = NewWindow
    /\ call' = [name |-> "Initialize"]
    /\ UNCHANGED <<algorithm, feed, cash, resolution, selector, holdings,
                   debugMessages, received, filled>>
    /\ UNCHANGED universeVars

\* The engine's record of the BTC data points it delivered.
Delivered(slice) ==
    IF "BTC" \in DOMAIN slice.Gecko
    THEN Append(received, slice.Gecko["BTC"])
    ELSE received

OnData(slice) ==
    /\ algorithm = "CoinGeckoAlgorithm"
    /\ initialized
    /\ Len(Delivered(slice)) <= MaxData
    /\ received' = Delivered(slice)
    /\ call' = [name |-> "OnData", arg |-> slice]
    /\ LET data == Get(slice) IN
       IF HasCustomData(data, custom_data_symbol)
       THEN /\ window' = Add(window, data[custom_data_symbol])
            /\ IF ~IsReady(window')
               THEN UNCHANGED holdings
               ELSE holdings' =
                      SetHoldings(holdings, crypto_symbol,
                                  TargetFor(Increasing(window')))
       ELSE UNCHANGED <<window, holdings>>
    /\ UNCHANGED <<algorithm, initialized, feed, crypto_symbol,
                   custom_data_symbol, debugMessages, filled>>
    /\ UNCHANGED qcVars
    /\ UNCHANGED universeVars

\* orderEvent.Status == OrderStatus.Filled
IsFilled_OrPartially(orderEvent) ==
    orderEvent.Status \in {"Filled", "PartiallyFilled"}
IsFilled(orderEvent) == orderEvent.Status = "Filled"

\* f'Purchased Stock: {orderEvent.Symbol}'
FillMessage(symbol) == <<"Purchased Stock: ", symbol>>

\* The engine's record of the Filled events it delivered.
DeliveredFill(orderEvent) ==
    IF orderEvent.Status = "Filled"
    THEN Append(filled, orderEvent)
    ELSE filled

OnOrderEvent(orderEvent) ==
    /\ algorithm = "CoinGeckoAlgorithm"
    /\ initialized
    /\ Len(DeliveredFill(orderEvent)) <= MaxFills
    /\ filled' = DeliveredFill(orderEvent)
    /\ call' = [name |-> "OnOrderEvent", arg |-> orderEvent]
    /\ debugMessages' =
         IF IsFilled(orderEvent)
         THEN Append(debugMessages, FillMessage(orderEvent.Symbol))
         ELSE debugMessages
    /\ UNCHANGED <<algorithm, initialized, feed, crypto_symbol,
                   custom_data_symbol, window, holdings, received>>
    /\ UNCHANGED qcVars
    /\ UNCHANGED universeVars

----------------------------------------------------------------------------
(* CoinGeckoUniverseSelectionModelAlgorithm *)

UniverseStartDate == <<2018, 4, 4>>
UniverseEndDate == <<2018, 4, 6>>

CoinGeckoUniverseSelectionModelAlgorithm_Initialize_NoCash ==
    /\ algorithm = "CoinGeckoUniverseSelectionModelAlgorithm"
    /\ ~initialized
    /\ initialized' = TRUE
    /\ resolution' = "Daily"
    /\ startDate' = UniverseStartDate
    /\ endDate' = UniverseEndDate
    /\ selector' = "UniverseSelection"
    /\ call' = [name |-> "Initialize"]
    /\ UNCHANGED <<algorithm, feed, cash>>
    /\ UNCHANGED alphaVars
    /\ UNCHANGED universeVars

CoinGeckoUniverseSelectionModelAlgorithm_Initialize ==
    /\ algorithm = "CoinGeckoUniverseSelectionModelAlgorithm"
    /\ ~initialized
    /\ initialized' = TRUE
    /\ resolution' = "Daily"
    /\ startDate' = UniverseStartDate
    /\ endDate' = UniverseEndDate
    /\ cash' = <<InitialCash>>
    /\ selector' = "UniverseSelection"
    /\ call' = [name |-> "Initialize"]
    /\ UNCHANGED <<algorithm, feed>>
    /\ UNCHANGED alphaVars
    /\ UNCHANGED universeVars

\* f'{datum.Coin},{datum.MarketCap},{datum.Price}'
LogLine(datum) == <<datum.Coin, datum.MarketCap, datum.Price>>

\* key=lambda x: x.MarketCap
SortKey_WithPrice(x) == x.MarketCap * 100 + x.Price
SortKey(x) == x.MarketCap

Reverse(s) == [i \in 1..Len(s) |-> s[Len(s) + 1 - i]]

\* Positions 1..n of a list, in order.
Positions(data) == [i \in 1..Len(data) |-> i]

\* One insertion of the stable ascending sort: position j goes behind every
\* position already placed whose key is not greater.
RECURSIVE Insert(_, _, _)
Insert(data, s, j) ==
    IF s = <<>>
    THEN <<j>>
    ELSE IF SortKey(data[j]) < SortKey(data[Head(s)])
         THEN <<j>> \o s
         ELSE <<Head(s)>> \o Insert(data, Tail(s), j)

\* The stable ascending sort of the positions idx by key.
RECURSIVE StableSort(_, _)
StableSort(data, idx) ==
    IF idx = <<>>
    THEN <<>>
    ELSE Insert(data, StableSort(data, SubSeq(idx, 1, Len(idx) - 1)),
                idx[Len(idx)])

\* sorted(data, key=..., reverse=True), as positions of data: the copy is
\* reversed, sorted ascending by a stable sort, and reversed again.
Sorted_Ascending(data) == StableSort(data, Positions(data))
Sorted_ReverseAfter(data) == Reverse(StableSort(data, Positions(data)))
Sorted(data) == Reverse(StableSort(data, Reverse(Positions(data))))

\* s[:n]
Prefix(s, n) == SubSeq(s, 1, IF Len(s) < n THEN Len(s) ELSE n)

\* sorted(...)[:3], as positions of data
Selected(data) == Prefix(Sorted(data), TopCount)

\* x.CreateSymbol(market, quote)
CreateSymbol(x, market, quote) ==
    [Ticker |-> <<x.Coin, quote>>, Market |-> market]

\* What UniverseSelection(data) returns.
Returned(data) ==
    [i \in 1..Len(Selected(data)) |->
        CreateSymbol(data[Selected(data)[i]], "GDAX", "USD")]

UniverseSelection(data) ==
    /\ algorithm = "CoinGeckoUniverseSelectionModelAlgorithm"
    /\ initialized
    /\ logged' = [i \in 1..Len(data) |-> LogLine(data[i])]
    /\ picked' = Selected(data)
    /\ result' = Returned(data)
    /\ call' = [name |-> "UniverseSelection", arg |-> data]
    /\ UNCHANGED <<algorithm, initialized, feed>>
    /\ UNCHANGED qcVars
    /\ UNCHANGED alphaVars

OnSecuritiesChanged(changes) ==
    /\ algorithm = "CoinGeckoUniverseSelectionModelAlgorithm"
    /\ initialized
    /\ logged' = <<changes>>
    /\ call' = [name |-> "OnSecuritiesChanged", arg |-> changes]
    /\ UNCHANGED <<algorithm, initialized, feed, result, picked>>
    /\ UNCHANGED qcVars
    /\ UNCHANGED alphaVars

----------------------------------------------------------------------------
Next ==
    \/ CoinGeckoAlgorithm_Initialize
    \/ \E slice \in Slices : OnData(slice)
    \/ \E orderEvent \in OrderEvents : OnOrderEvent(orderEvent)
    \/ CoinGeckoUniverseSelectionModelAlgorithm_Initialize
    \/ UniverseSelection(feed)
    \/ \E changes \in Changes : OnSecuritiesChanged(changes)

Spec == Init /\ [][Next]_vars

----------------------------------------------------------------------------
(* Properties of CoinGeckoUniverseSelectionModelAlgorithm.UniverseSelection *)

AfterSelection == call.name = "UniverseSelection"

Min(a, b) == IF a < b THEN a ELSE b

\* Positions of `data` that `sel` leaves out.
LeftOut(data, sel) == DOMAIN data \ {sel[i] : i \in DOMAIN sel}

\* C1: UniverseSelection(data) returns min(3, len(data)) symbols; the i-th is
\* the GDAX/USD symbol of the datum with the i-th largest MarketCap, so the
\* result is in non-increasing MarketCap order, and no datum left out has a
\* MarketCap strictly greater than a selected one.
C1_TopThreeByMarketCap ==
    AfterSelection =>
      LET data == call.arg
          n == Len(data)
          cap(k) == data[k].MarketCap
      IN /\ Len(result) = Min(3, n)
         /\ Len(picked) = Len(result)
         /\ \A i \in DOMAIN picked : picked[i] \in 1..n
         /\ \A i, j \in DOMAIN picked : i # j => picked[i] # picked[j]
         /\ \A i \in DOMAIN result :
              /\ result[i].Market = "GDAX"
              /\ result[i].Ticker = <<data[picked[i]].Coin, "USD">>
              \* i-th largest: fewer than i data are strictly greater, and
              \* at least i data are not smaller
              /\ Cardinality({k \in 1..n : cap(k) > cap(picked[i])}) < i
              /\ Cardinality({k \in 1..n : cap(k) >= cap(picked[i])}) >= i
         /\ \A i \in DOMAIN picked :
              i + 1 \in DOMAIN picked => cap(picked[i]) >= cap(picked[i + 1])
         /\ \A k \in LeftOut(data, picked) :
              \A i \in DOMAIN picked : cap(k) <= cap(picked[i])

\* A list longer than three, not in descending order, whose left-out datum
\* is strictly smaller than a selected one that comes after it.
C1_Witness ==
    /\ AfterSelection
    /\ Len(call.arg) > 3
    /\ Len(result) = 3
    /\ \E k \in LeftOut(call.arg, picked) :
         \E i \in DOMAIN picked :
            /\ k < picked[i]
            /\ call.arg[k].MarketCap < call.arg[picked[i]].MarketCap
    /\ picked[1] # 1

\* `data` with its Price fields replaced by p.
WithPrices(data, p) ==
    [i \in DOMAIN data |-> [data[i] EXCEPT !.Price = p[i]]]

\* C5: the selection does not depend on Price: every list that agrees with
\* the one passed position by position on MarketCap (and Coin) but carries
\* other prices has the same positions selected.
C5_SelectionIgnoresPrice ==
    AfterSelection =>
      \A p \in [DOMAIN call.arg -> Prices] :
         Selected(WithPrices(call.arg, p)) = picked

\* Two data tie on MarketCap at the cut, differ in Price, and only one of
\* them is selected.
C5_Witness ==
    /\ AfterSelection
    /\ \E i \in DOMAIN picked :
         \E k \in LeftOut(call.arg, picked) :
            /\ call.arg[k].MarketCap = call.arg[picked[i]].MarketCap
            /\ call.arg[k].Price > call.arg[picked[i]].Price

\* C10: ties are broken by input order: of two data with equal MarketCap the
\* earlier one is ranked first (selected if the later one is, and ahead of
\* it), and the list passed in is the same list after the call.
C10_TiesByInputOrder ==
    AfterSelection =>
      LET data == call.arg
          rank(k) == CHOOSE i \in DOMAIN picked : picked[i] = k
          isPicked(k) == \E i \in DOMAIN picked : picked[i] = k
      IN /\ \A a, b \in DOMAIN data :
              (a < b /\ data[a].MarketCap = data[b].MarketCap /\ isPicked(b))
                 => (isPicked(a) /\ rank(a) < rank(b))
         /\ feed = data

\* Three data tie on MarketCap; the first two are selected, in input order,
\* and the last is left out.
C10_Witness ==
    /\ AfterSelection
    /\ \E a, b, c \in DOMAIN call.arg :
         /\ a < b /\ b < c
         /\ call.arg[a].MarketCap = call.arg[b].MarketCap
         /\ call.arg[b].MarketCap = call.arg[c].MarketCap
         /\ \E i \in DOMAIN picked : picked[i] = a /\ i + 1 \in DOMAIN picked
                                     /\ picked[i + 1] = b
         /\ c \in LeftOut(call.arg, picked)

----------------------------------------------------------------------------
(* Properties of CoinGeckoAlgorithm *)

\* The latest handler call was OnData with a BTC data point in its slice.
BtcDelivered(c) == c.name = "OnData" /\ "BTC" \in DOMAIN c.arg.Gecko

\* The latest handler call was OnData without a BTC data point.
NoBtcDelivered(c) == c.name = "OnData" /\ "BTC" \notin DOMAIN c.arg.Gecko

Last(s) == s[Len(s)]

\* C2: when a BTC data point arrives and the window already holds a previous
\* one, OnData calls SetHoldings(BTCUSD, 1) exactly when the new MarketCap is
\* strictly greater than the previous one, and SetHoldings(BTCUSD, -1)
\* otherwise.
C2_TrendDecidesTarget ==
    [][ (BtcDelivered(call') /\ window # <<>> /\ received # <<>>) =>
          LET latest == call'.arg.Gecko["BTC"].MarketCap
              previous == Last(received).MarketCap
          IN holdings' =
               Append(holdings,
                      [Symbol |-> "BTCUSD",
                       Target |-> IF latest > previous THEN 1 ELSE -1])
      ]_vars

\* Two equal readings in a row: the target is -1.
C2_Witness ==
    /\ BtcDelivered(call)
    /\ Len(received) >= 2
    /\ received[Len(received)].MarketCap = received[Len(received) - 1].MarketCap
    /\ Last(holdings) = [Symbol |-> "BTCUSD", Target |-> -1]

\* C6: no SetHoldings call is made before the second BTC data point has
\* been added to the window; the first one only fills the window.
C6_NoOrderBeforeSecondPoint ==
    /\ Len(received) < 2 => holdings = <<>>
    /\ Len(received) = 1 => window = <<received[1]>>

\* The first BTC data point has just been handled.
C6_Witness ==
    /\ BtcDelivered(call)
    /\ Len(received) = 1
    /\ window = <<received[1]>>
    /\ holdings = <<>>

\* C7: the window holds at most 2 elements; window[0] is the most recently
\* received BTC data point and window[1] the one received just before it.
C7_WindowHoldsLatestTwo ==
    /\ Len(window) <= 2
    /\ Len(window) = Min(2, Len(received))
    /\ Len(window) >= 1 => At(window, 0) = received[Len(received)]
    /\ Len(window) >= 2 => At(window, 1) = received[Len(received) - 1]

\* Three BTC data points were received and the oldest, which differs from
\* both later ones, is no longer in the window.
C7_Witness ==
    /\ Len(received) = 3
    /\ received[1] # received[2]
    /\ received[1] # received[3]
    /\ window = <<received[3], received[2]>>

\* C8: an OnData call whose slice has no CoinGecko data, or none for BTC,
\* leaves the window unchanged and makes no SetHoldings call, whatever else
\* the slice carries.
C8_NoBtcDataNoEffect ==
    [][ NoBtcDelivered(call') =>
          (window' = window /\ holdings' = holdings) ]_vars

\* A slice with a BTCUSD bar and ETH data only arrives when the window is
\* ready.
C8_Witness ==
    /\ NoBtcDelivered(call)
    /\ "ETH" \in DOMAIN call.arg.Gecko
    /\ call.arg.Bars # {}
    /\ Len(window) = 2
    /\ holdings # <<>>

\* C9: once the window is ready, every OnData call carrying a BTC data point
\* makes exactly one SetHoldings call; every SetHoldings call is for BTCUSD
\* with target +1 or -1.
C9_OneOrderPerPoint ==
    [][ /\ (BtcDelivered(call') /\ Len(window) = 2) =>
             /\ Len(holdings') = Len(holdings) + 1
             /\ SubSeq(holdings', 1, Len(holdings)) = holdings
        /\ \A k \in DOMAIN holdings' :
             /\ holdings'[k].Symbol = "BTCUSD"
             /\ holdings'[k].Target \in {1, -1}
      ]_vars

\* A third BTC data point arrived with the window ready: two calls so far,
\* one of each target.
C9_Witness ==
    /\ BtcDelivered(call)
    /\ Len(received) = 3
    /\ Len(holdings) = 2
    /\ holdings[1].Target # holdings[2].Target

\* C4: OnOrderEvent emits exactly one Debug message, naming the event's
\* symbol, for each event whose Status is Filled, and for any other status
\* emits nothing and changes no state of the algorithm.
C4_DebugPerFill ==
    [][ call'.name = "OnOrderEvent" =>
          /\ debugMessages' =
               IF call'.arg.Status = "Filled"
               THEN Append(debugMessages,
                           <<"Purchased Stock: ", call'.arg.Symbol>>)
               ELSE debugMessages
          /\ Len(debugMessages') = Len(filled')
          /\ UNCHANGED <<window, holdings, crypto_symbol, custom_data_symbol,
                         startDate, endDate, cash>>
      ]_vars

\* Two fills of different symbols were reported, then a Canceled event came.
C4_Witness ==
    /\ call.name = "OnOrderEvent"
    /\ call.arg.Status = "Canceled"
    /\ Len(filled) = 2
    /\ filled[1].Symbol # filled[2].Symbol
    /\ debugMessages = << <<"Purchased Stock: ", filled[1].Symbol>>,
                          <<"Purchased Stock: ", filled[2].Symbol>> >>
    /\ Len(window) = 2

----------------------------------------------------------------------------
(* Properties of Initialize *)

DatesDeclared ==
    /\ startDate # Unset
    /\ endDate # Unset
    /\ DateLE(startDate, endDate)

\* C3 as stated: after Initialize, both algorithms have set a start date, an
\* end date (start <= end) and an initial cash amount.
C3_DatesAndCashDeclared ==
    initialized => (DatesDeclared /\ cash # Unset)

\* C3 amended: after Initialize, both algorithms have set a start date and
\* an end date (start <= end); CoinGeckoUniverseSelectionModelAlgorithm has
\* also set its initial cash (100000), while CoinGeckoAlgorithm has made no
\* SetCash call.
C3_DatesDeclaredCashOnlyInUniverse ==
    initialized =>
      /\ DatesDeclared
      /\ algorithm = "CoinGeckoUniverseSelectionModelAlgorithm"
           => cash = <<100000>>
      /\ algorithm = "CoinGeckoAlgorithm" => cash = Unset

\* The universe algorithm after Initialize, with its dates and cash set.
C3_Witness ==
    /\ initialized
    /\ algorithm = "CoinGeckoUniverseSelectionModelAlgorithm"
    /\ startDate = <<2018, 4, 4>>
    /\ endDate = <<2018, 4, 6>>
    /\ cash = <<100000>>

====
